---- MODULE Spec2Model ----
(***************************************************************************)
(* The `nitro apply` command (package apply): RunE reconciles the declared *)
(* databases, mounts, services and sites against the container engine,     *)
(* synchronises the proxy and edits the hosts file; PostRunE sweeps the    *)
(* managed containers that are not in knownContainers.                     *)
(*                                                                         *)
(* Every call to a collaborator (docker, nitrod, the *container packages,  *)
(* backup, hostedit, sudo) is one step; its result is an input drawn from  *)
(* the results the collaborator can give.                                  *)
(***************************************************************************)
EXTENDS Integers, Sequences, FiniteSets, TLC

\* ------------------------------------------------------------------ bounds
MaxContainers == 4
MaxDatabases == 1
MaxMounts == 1
MaxSites == 1
MaxBackupDatabases == 2
MaxPingFails == 1

\* ------------------------------------------------------- the engine's world
ContainerIDs == 1..MaxContainers
ProxyID == 1

\* c.Labels of the container with identifier id: the proxy carries
\* labels.Proxy, a database container carries labels.DatabaseEngine.
Labels(id) ==
    [Proxy |-> id = ProxyID,
     DatabaseEngine |-> id # ProxyID /\ id % 2 = 0]

DatabaseIDs == {id \in ContainerIDs : Labels(id).DatabaseEngine}
OtherIDs == {id \in ContainerIDs : ~Labels(id).Proxy /\ ~Labels(id).DatabaseEngine}

Hostnames == {"a.test"}
AliasLists == {<<>>, <<"b.test">>}

SeqsUpTo(S, n) == UNION {[1..k -> S] : k \in 0..n}

\* config.Config as far as apply reads it
Sites == [Hostname : Hostnames, Aliases : AliasLists]
Configs ==
    [Databases : {[k \in 1..n |-> k] : n \in 0..MaxDatabases},
     Mounts : {[k \in 1..n |-> k] : n \in 0..MaxMounts},
     DynamoDB : BOOLEAN,
     Mailhog : BOOLEAN,
     Sites : SeqsUpTo(Sites, MaxSites)]

NoConfig ==
    [Databases |-> <<>>, Mounts |-> <<>>, DynamoDB |-> FALSE,
     Mailhog |-> FALSE, Sites |-> <<>>]

NoEnv == [NITRO_EDIT_HOSTS |-> "", skipHosts |-> FALSE, GOOS |-> ""]

VARIABLES
    pc,               \* the call the command is about to make
    cfg,              \* RunE's cfg (config.Load)
    item,             \* index of the item a provisioning loop is at
    knownContainers,  \* the package variable knownContainers (keys)
    engine,           \* identifiers of the managed containers that exist
    calls,            \* history: the calls RunE has made, in order
    runErr,           \* what RunE returned: "none" (running), "nil", "err"
    outcome,          \* the return statement RunE left by
    env,              \* NITRO_EDIT_HOSTS, --skip-hosts, runtime.GOOS as read
    postErr,          \* what PostRunE returned: "none", "nil", "err"
    containers,       \* PostRunE's containers (docker.ContainerList)
    ci,               \* index of the container the sweep is at
    databases,        \* PostRunE's databases (backup.Databases)
    di,               \* index of the database the backup loop is at
    attempts,         \* history: backup.Perform calls for containers[ci]
    listFailed,       \* history: containers whose backup.Databases failed
    stopCalls,        \* history: identifiers ContainerStop was called with
    removeCalls,      \* history: identifiers ContainerRemove was called with
    cancelled,        \* whether the command's context (ctx) is cancelled
    probes,           \* history: parity of the Pings issued with ctx cancelled
    runs,             \* how many times the command has run in this process
    declared,         \* history: identifiers the current run has recorded
    request,          \* updateProxy's sites map (protob.ApplyRequest.Sites)
    hostsIn,          \* hostedit.Update's arguments: file text, addr, hosts
    hostsOut,         \* hostedit.Update's result
    hostsCurrent,     \* hostedit.IsUpdated's result
    execs,            \* history: the command lines run as child processes
    flags,            \* run command: the values of its flags
    args              \* run command: the positional arguments

vars ==
    <<pc, cfg, item, knownContainers, engine, calls, runErr, outcome, env,
      postErr, containers, ci, databases, di, attempts, listFailed,
      stopCalls, removeCalls, cancelled, probes, runs, declared, request,
      hostsIn, hostsOut, hostsCurrent, execs, flags, args>>

runVars == <<cfg, item, calls, env>>
sweepVars ==
    <<postErr, containers, ci, databases, di, attempts, listFailed,
      stopCalls, removeCalls>>

ctxVars == <<cancelled, probes>>
processVars == <<runs, declared>>
hostsVars == <<hostsIn, hostsOut, hostsCurrent>>
cmdVars == <<flags, args>>
unitVars == <<request, hostsVars, execs, cmdVars>>

Call(op, res) == [op |-> op, res |-> res]

NoRequest == <<>>
NoHosts == [exists |-> FALSE, file |-> <<>>, addr |-> "", hosts |-> <<>>]
NoOutput == [text |-> <<>>, err |-> FALSE]
NoCheck == [updated |-> FALSE, err |-> FALSE]
NoFlags ==
    [entrypoint |-> "", image |-> "", publish |-> "", workingDir |-> "",
     command |-> <<>>, interactive |-> FALSE, pull |-> FALSE,
     persist |-> FALSE]

\* The state when the command starts in a fresh process, about to make call
\* p with configuration c; the updateProxy and hostedit variables are idle.
Started(p, c) ==
    /\ pc = p
    /\ cfg = c
    /\ item = 1
    /\ knownContainers = {}
    /\ calls = <<>>
    /\ runErr = "none"
    /\ outcome = "running"
    /\ postErr = "none"
    /\ containers = <<>>
    /\ ci = 1
    /\ databases = <<>>
    /\ di = 1
    /\ attempts = <<>>
    /\ listFailed = {}
    /\ stopCalls = {}
    /\ removeCalls = {}
    /\ cancelled = FALSE
    /\ probes = 0
    /\ runs = 1
    /\ declared = {}

Init ==
    /\ Started("Load", NoConfig)
    /\ engine \in SUBSET ContainerIDs
    /\ env = NoEnv
    /\ request = NoRequest
    /\ hostsIn = NoHosts
    /\ hostsOut = NoOutput
    /\ hostsCurrent = NoCheck
    /\ execs = <<>>
    /\ flags = NoFlags
    /\ args = <<>>

\* ------------------------------------------------------------- RunE helpers

\* cobra runs the PostRunE hook after RunE only when RunE returned nil;
\* an error from RunE ends the command.
HookRunsAlways(err) == "ContainerList"

HookAfterRunE(err) == IF err = "nil" THEN "ContainerList" ELSE "done"

\* A return statement of RunE. cfg and the call history belong to the RunE
\* invocation: they are kept when RunE fails, which ends the command, and
\* dropped when it returns nil.
Return(err, site, log) ==
    /\ runErr' = err
    /\ outcome' = site
    /\ pc' = HookAfterRunE(err)
    /\ calls' = IF err = "nil" THEN <<>> ELSE log
    /\ cfg' = IF err = "nil" THEN NoConfig ELSE cfg
    /\ item' = 1

\* The provisioning loops of RunE in source order: databases, mounts,
\* dynamodb, mailhog, sites; phase 6 is updateProxy.
PhasesMountsFirst == <<"Mount", "Database", "DynamoDB", "Mailhog", "Site">>

Phases == <<"Database", "Mount", "DynamoDB", "Mailhog", "Site">>

Count(c, p) ==
    CASE p = 1 -> Len(c.Databases)
      [] p = 2 -> Len(c.Mounts)
      [] p = 3 -> IF c.DynamoDB THEN 1 ELSE 0
      [] p = 4 -> IF c.Mailhog THEN 1 ELSE 0
      [] p = 5 -> Len(c.Sites)

RECURSIVE FirstPhase(_, _)
FirstPhase(c, p) ==
    IF p > Len(Phases) THEN p
    ELSE IF Count(c, p) > 0 THEN p ELSE FirstPhase(c, p + 1)

\* updateProxy, lines 382-391: sites[s.Hostname] = &protob.Site{...}
Join(seq, sep) ==
    IF Len(seq) = 0 THEN <<>>
    ELSE [k \in 1..(2 * Len(seq) - 1) |->
            IF k % 2 = 1 THEN seq[(k + 1) \div 2] ELSE sep]

ProxyPort == 8080

\* the first site with a hostname keeps its entry
ProxySitesFirstSite(c) ==
    [h \in {c.Sites[k].Hostname : k \in 1..Len(c.Sites)} |->
        LET first == CHOOSE k \in 1..Len(c.Sites) :
                        /\ c.Sites[k].Hostname = h
                        /\ \A j \in 1..(k - 1) : c.Sites[j].Hostname # h
        IN [Hostname |-> c.Sites[first].Hostname,
            Aliases |-> Join(c.Sites[first].Aliases, ","),
            Port |-> ProxyPort]]

ProxySites(c) ==
    [h \in {c.Sites[k].Hostname : k \in 1..Len(c.Sites)} |->
        LET last == CHOOSE k \in 1..Len(c.Sites) :
                        /\ c.Sites[k].Hostname = h
                        /\ \A j \in (k + 1)..Len(c.Sites) : c.Sites[j].Hostname # h
        IN [Hostname |-> c.Sites[last].Hostname,
            Aliases |-> Join(c.Sites[last].Aliases, ","),
            Port |-> ProxyPort]]

\* updateProxy, lines 393-396: with no sites it returns nil before any call
\* to nitrod, and RunE goes on to the hosts file.
UpdateProxyEntryAlwaysPings(c) == "Ping"

UpdateProxyEntry(c) ==
    IF Cardinality(DOMAIN ProxySites(c)) = 0 THEN "EditHosts" ELSE "Ping"

\* Where RunE is after item k of phase p succeeded: <<pc, item>>.
AfterItem(c, p, k) ==
    IF p >= 1 /\ p <= Len(Phases) /\ k < Count(c, p)
    THEN <<Phases[p], k + 1>>
    ELSE LET q == FirstPhase(c, p + 1)
         IN IF q <= Len(Phases) THEN <<Phases[q], 1>>
            ELSE <<UpdateProxyEntry(c), 1>>

\* ------------------------------------------------------------ RunE actions

\* line 152: cfg, err := config.Load(home)
LoadConfig ==
    /\ pc = "Load"
    /\ \/ /\ Return("err", "config.Load", Append(calls, Call("config.Load", "err")))
          /\ UNCHANGED <<knownContainers, engine, env>>
       \/ /\ \E c \in Configs : cfg' = c
          /\ pc' = "NetworkList"
          /\ calls' = Append(calls, Call("config.Load", "ok"))
          /\ UNCHANGED <<item, knownContainers, engine, runErr, outcome, env>>
    /\ UNCHANGED sweepVars
    /\ UNCHANGED <<ctxVars, processVars, unitVars>>

\* lines 166-185: docker.NetworkList and the search for nitro-network
NetworkList ==
    /\ pc = "NetworkList"
    /\ \/ Return("err", "NetworkList", Append(calls, Call("NetworkList", "err")))
       \/ Return("nil", "no network", Append(calls, Call("NetworkList", "absent")))
       \/ /\ pc' = "FindAndStart"
          /\ calls' = Append(calls, Call("NetworkList", "ok"))
          /\ UNCHANGED <<cfg, item, runErr, outcome>>
    /\ UNCHANGED <<knownContainers, engine, env>>
    /\ UNCHANGED sweepVars
    /\ UNCHANGED <<ctxVars, processVars, unitVars>>

\* line 35: the sentinel error of package apply
ErrNoProxyContainer == "apply.ErrNoProxyContainer"

\* The errors with which proxycontainer.FindAndStart reports that there is
\* no proxy container. The collaborator is in pkg/proxycontainer, which
\* package apply imports (line 27), so it cannot name apply's sentinel: it
\* reports absence with an error of its own, or with apply's sentinel if
\* that value was handed to it.
ProxyAbsentErrors ==
    {"apply.ErrNoProxyContainer", "proxycontainer.ErrNoProxyContainer"}

\* The errors FindAndStart can return when the engine has the containers S.
FindAndStartErrors(S) ==
    {"err"} \cup (IF ProxyID \in S THEN {} ELSE ProxyAbsentErrors)

\* line 195, errors.Is(err, target): err, or an error it wraps, is target
ErrorsIs(err, target) == err = target

\* lines 195-201: the return statement RunE takes with FindAndStart's
\* error: <<what it returns, the return site>>.
FindAndStartReturn(err) ==
    IF ErrorsIs(err, ErrNoProxyContainer)
    THEN <<"nil", "no proxy">>
    ELSE <<"err", "FindAndStart">>

\* lines 194-202: proxycontainer.FindAndStart
FindAndStart ==
    /\ pc = "FindAndStart"
    /\ \/ \E e \in FindAndStartErrors(engine) :
            Return(FindAndStartReturn(e)[1], FindAndStartReturn(e)[2],
                   Append(calls, Call("FindAndStart", e)))
       \/ /\ ProxyID \in engine
          /\ pc' = AfterItem(cfg, 0, 0)[1]
          /\ item' = AfterItem(cfg, 0, 0)[2]
          /\ calls' = Append(calls, Call("FindAndStart", "ok"))
          /\ UNCHANGED <<cfg, runErr, outcome>>
    /\ UNCHANGED <<knownContainers, engine, env>>
    /\ UNCHANGED sweepVars
    /\ UNCHANGED <<ctxVars, processVars, unitVars>>

\* lines 215-218, 235-238, 254-256, 269-271, 289-292: a collaborator's error
\* is returned at once.
ProvisionFailedIgnored(p) ==
    /\ pc' = AfterItem(cfg, p, item)[1]
    /\ item' = AfterItem(cfg, p, item)[2]
    /\ calls' = Append(calls, Call(Phases[p], "err"))
    /\ UNCHANGED <<cfg, runErr, outcome>>

ProvisionFailed(p) ==
    Return("err", Phases[p], Append(calls, Call(Phases[p], "err")))

\* lines 220, 241, 257-259, 272-274, 294: knownContainers[id] = true; the
\* services record the identifier only when it is not empty (0 here).
Provisioned(p, id) ==
    /\ knownContainers' = IF id = 0 THEN knownContainers ELSE knownContainers \cup {id}
    /\ declared' = IF id = 0 THEN declared ELSE declared \cup {id}
    /\ engine' = IF id = 0 THEN engine ELSE engine \cup {id}
    /\ pc' = AfterItem(cfg, p, item)[1]
    /\ item' = AfterItem(cfg, p, item)[2]
    /\ calls' = Append(calls, Call(Phases[p], "ok"))
    /\ UNCHANGED <<cfg, runErr, outcome>>

Provision(p, ids) ==
    /\ \/ /\ ProvisionFailed(p)
          /\ UNCHANGED <<knownContainers, engine, declared>>
       \/ \E id \in ids : Provisioned(p, id)
    /\ UNCHANGED env
    /\ UNCHANGED sweepVars
    /\ UNCHANGED <<ctxVars, runs, unitVars>>

\* lines 209-223: databasecontainer.StartOrCreate
StartOrCreateDatabase ==
    /\ pc = Phases[1]
    /\ Provision(1, DatabaseIDs)

\* lines 226-245: mountcontainer.FindOrCreate
FindOrCreateMount ==
    /\ pc = Phases[2]
    /\ Provision(2, OtherIDs)

\* lines 250-262: dynamodb(ctx, docker, cfg.Services.DynamoDB, network.ID)
DynamoDBService ==
    /\ pc = Phases[3]
    /\ Provision(3, OtherIDs \cup {0})

\* lines 265-277: mailhog(ctx, docker, cfg.Services.Mailhog, network.ID)
MailhogService ==
    /\ pc = Phases[4]
    /\ Provision(4, OtherIDs \cup {0})

\* lines 279-298: sitecontainer.StartOrCreate
StartOrCreateSite ==
    /\ pc = Phases[5]
    /\ Provision(5, OtherIDs)

\* --------------------------------------------------------------- updateProxy

PingFails == Cardinality({k \in 1..Len(calls) : calls[k] = Call("Ping", "err")})

\* lines 399-404: for { _, err := nitrod.Ping(...); if err == nil { break } }
AfterPingIgnoresError(res) == "Apply"

AfterPing(res) == IF res = "ok" THEN "Apply" ELSE "Ping"

\* line 400: nitrod.Ping(ctx, ...) is a gRPC call; with ctx cancelled it
\* returns an error without reaching the proxy.
PingResults(c) == IF c THEN {"err"} ELSE {"ok", "err"}

\* The failed Pings of a live context are recorded up to MaxPingFails; the
\* Pings of a cancelled context are counted by parity in probes.
Ping ==
    /\ pc = "Ping"
    /\ \E res \in PingResults(cancelled) :
        /\ (res = "err" /\ ~cancelled) => PingFails < MaxPingFails
        /\ pc' = AfterPing(res)
        /\ calls' = IF res = "err" /\ PingFails >= MaxPingFails
                    THEN calls ELSE Append(calls, Call("Ping", res))
    /\ probes' = IF cancelled THEN 1 - probes ELSE probes
    /\ UNCHANGED <<cfg, item, knownContainers, engine, runErr, outcome, env>>
    /\ UNCHANGED sweepVars
    /\ UNCHANGED <<cancelled, processVars, unitVars>>

\* lines 406-416 and 304-307: nitrod.Apply; a transport error and a response
\* with Error set both make updateProxy, and then RunE, return an error.
ApplyErrorIgnoresFlag(res) == IF res = "err" THEN "err" ELSE "nil"

\* What updateProxy returns for Apply's result: the transport error (lines
\* 407-409), an error built from resp.GetMessage() when resp.Error is set
\* (lines 412-414), nil otherwise.
ApplyError(res) == IF res \in {"err", "resp.Error"} THEN "err" ELSE "nil"

Apply ==
    /\ pc = "Apply"
    /\ \E res \in {"err", "resp.Error", "ok"} :
        IF ApplyError(res) = "err"
        THEN Return("err", "updateProxy", Append(calls, Call("Apply", res)))
        ELSE /\ pc' = "EditHosts"
             /\ calls' = Append(calls, Call("Apply", res))
             /\ UNCHANGED <<cfg, item, runErr, outcome>>
    /\ UNCHANGED <<knownContainers, engine, env>>
    /\ UNCHANGED sweepVars
    /\ UNCHANGED <<ctxVars, processVars, unitVars>>

\* ---------------------------------------------------------------- hosts file

\* lines 318-322: every site's hostname followed by its aliases
RECURSIVE HostnamesOnly(_)
HostnamesOnly(sites) ==
    IF Len(sites) = 0 THEN <<>>
    ELSE <<sites[1].Hostname>> \o HostnamesOnly(Tail(sites))

RECURSIVE HostnamesOf(_)
HostnamesOf(sites) ==
    IF Len(sites) = 0 THEN <<>>
    ELSE <<sites[1].Hostname>> \o sites[1].Aliases \o HostnamesOf(Tail(sites))

SkipHostsFlagOnly(e) == e.skipHosts

\* line 312
SkipHosts(e) == e.NITRO_EDIT_HOSTS = "false" \/ e.skipHosts

\* lines 311-324: the opt-out and the empty host list end RunE with nil
EditHosts ==
    /\ pc = "EditHosts"
    /\ \E e \in [NITRO_EDIT_HOSTS : {"", "false"}, skipHosts : BOOLEAN,
                 GOOS : {"linux", "windows"}] :
        /\ env' = e
        /\ IF SkipHosts(e) THEN Return("nil", "skip hosts", calls)
           ELSE IF Len(HostnamesOf(cfg.Sites)) = 0
                THEN Return("nil", "no hostnames", calls)
                ELSE /\ pc' = "IsUpdated"
                     /\ UNCHANGED <<cfg, item, calls, runErr, outcome>>
    /\ UNCHANGED <<knownContainers, engine>>
    /\ UNCHANGED sweepVars
    /\ UNCHANGED <<ctxVars, processVars, unitVars>>

\* lines 331-338: hostedit.IsUpdated(defaultFile, "127.0.0.1", hostnames...)
IsUpdated ==
    /\ pc = "IsUpdated"
    /\ \/ Return("err", "IsUpdated", Append(calls, Call("IsUpdated", "err")))
       \/ Return("nil", "hosts current", Append(calls, Call("IsUpdated", "true")))
       \/ /\ pc' = "HostsCommand"
          /\ calls' = Append(calls, Call("IsUpdated", "false"))
          /\ UNCHANGED <<cfg, item, runErr, outcome>>
    /\ UNCHANGED <<knownContainers, engine, env>>
    /\ UNCHANGED sweepVars
    /\ UNCHANGED <<ctxVars, processVars, unitVars>>

\* lines 339-367: os.Executable, then `nitro hosts` run directly on windows
\* and through sudo elsewhere. On windows a failed c.Run() returns the outer
\* err, which is nil after a successful IsUpdated.
HostsCommandLine(goos, hostnames) ==
    (IF goos = "windows" THEN <<"nitro">> ELSE <<"sudo", "nitro">>)
        \o <<"hosts", "--hostnames=">> \o Join(hostnames, ",")

HostsCommand ==
    /\ pc = "HostsCommand"
    /\ \/ /\ Return("err", "os.Executable", Append(calls, Call("os.Executable", "err")))
          /\ UNCHANGED execs
       \/ /\ execs' = Append(execs, HostsCommandLine(env.GOOS, HostnamesOf(cfg.Sites)))
          /\ \/ /\ env.GOOS = "windows"
                /\ \/ Return("nil", "hosts written", Append(calls, Call("exec.Run", "ok")))
                   \/ Return("nil", "hosts command failed", Append(calls, Call("exec.Run", "err")))
             \/ /\ env.GOOS # "windows"
                /\ \/ Return("nil", "hosts written", Append(calls, Call("sudo.Run", "ok")))
                   \/ Return("err", "sudo.Run", Append(calls, Call("sudo.Run", "err")))
    /\ UNCHANGED <<knownContainers, engine, env>>
    /\ UNCHANGED sweepVars
    /\ UNCHANGED <<ctxVars, processVars, request, hostsVars, cmdVars>>

\* ------------------------------------------------------------------ PostRunE

\* docker.ContainerList gives the managed containers in the engine's order.
Listings(S) ==
    {l \in [1..Cardinality(S) -> S] : \A a, b \in DOMAIN l : l[a] = l[b] => a = b}

\* lines 71-75: the loop body runs for a container that is not in
\* knownContainers and does not carry the proxy label.
IsOrphanIgnoresProxyLabel(known, id) == id \notin known

IsOrphan(known, id) == id \notin known /\ ~Labels(id).Proxy

RECURSIVE NextOrphan(_, _, _)
NextOrphan(list, k, known) ==
    IF k > Len(list) THEN k
    ELSE IF IsOrphan(known, list[k]) THEN k ELSE NextOrphan(list, k + 1, known)

\* lines 82-83 and 128-129: a database container is listed and backed up
\* first, any other orphan is stopped at once.
FirstCall(id) == IF Labels(id).DatabaseEngine THEN "Databases" ELSE "ContainerStop"

\* The container loop moves to the first orphan at or after index from;
\* past the last container PostRunE returns nil (line 140).
Sweep(list, from) ==
    LET k == NextOrphan(list, from, knownContainers)
    IN /\ ci' = k
       /\ databases' = <<>>
       /\ di' = 1
       /\ attempts' = <<>>
       /\ pc' = IF k > Len(list) THEN "done" ELSE FirstCall(list[k])
       /\ postErr' = IF k > Len(list) THEN "nil" ELSE postErr

\* lines 60-68
ContainerList ==
    /\ pc = "ContainerList"
    /\ \/ /\ pc' = "done"
          /\ postErr' = "err"
          /\ UNCHANGED <<containers, ci, databases, di, attempts>>
       \/ \E l \in Listings(engine) :
            /\ containers' = l
            /\ Sweep(l, 1)
    /\ UNCHANGED <<knownContainers, engine, runErr, outcome, listFailed,
                   stopCalls, removeCalls>>
    /\ UNCHANGED runVars
    /\ UNCHANGED <<ctxVars, processVars, unitVars>>

\* lines 86-90: `break` after a failed backup.Databases leaves the loop over
\* the containers; index of the container the loop goes on with.
AfterListFailure(list, k) == Len(list) + 1

\* lines 85-93: backup.Databases
Databases ==
    /\ pc = "Databases"
    /\ \/ /\ listFailed' = listFailed \cup {containers[ci]}
          /\ Sweep(containers, AfterListFailure(containers, ci))
       \/ \E n \in 0..MaxBackupDatabases :
            /\ databases' = [k \in 1..n |-> k]
            /\ di' = 1
            /\ attempts' = <<>>
            /\ pc' = IF n = 0 THEN "ContainerStop" ELSE "Perform"
            /\ UNCHANGED <<ci, postErr, listFailed>>
    /\ UNCHANGED <<knownContainers, engine, runErr, outcome, containers,
                   stopCalls, removeCalls>>
    /\ UNCHANGED runVars
    /\ UNCHANGED <<ctxVars, processVars, unitVars>>

\* lines 114-119: `break` after a failed backup.Perform leaves the loop over
\* the databases; index of the database the loop goes on with.
AfterBackup(dbs, d, res) == IF res = "ok" THEN d + 1 ELSE Len(dbs) + 1

\* lines 93-122: backup.Perform for databases[di]
Perform ==
    /\ pc = "Perform"
    /\ \E res \in {"ok", "err"} :
        /\ attempts' = Append(attempts, [db |-> databases[di], res |-> res])
        /\ di' = AfterBackup(databases, di, res)
        /\ pc' = IF AfterBackup(databases, di, res) > Len(databases)
                 THEN "ContainerStop" ELSE "Perform"
    /\ UNCHANGED <<knownContainers, engine, runErr, outcome, postErr,
                   containers, ci, databases, listFailed, stopCalls, removeCalls>>
    /\ UNCHANGED runVars
    /\ UNCHANGED <<ctxVars, processVars, unitVars>>

\* lines 129-131: a failed ContainerStop returns its error
AfterStopIgnoresError(res) == "ContainerRemove"

AfterStop(res) == IF res = "ok" THEN "ContainerRemove" ELSE "done"

ContainerStop ==
    /\ pc = "ContainerStop"
    /\ \E res \in {"ok", "err"} :
        /\ stopCalls' = stopCalls \cup {<<containers[ci], res>>}
        /\ pc' = AfterStop(res)
        /\ postErr' = IF AfterStop(res) = "done" THEN "err" ELSE postErr
    /\ UNCHANGED <<knownContainers, engine, runErr, outcome, containers, ci,
                   databases, di, attempts, listFailed, removeCalls>>
    /\ UNCHANGED runVars
    /\ UNCHANGED <<ctxVars, processVars, unitVars>>

\* lines 134-136: ContainerRemove; the engine no longer has the container
ContainerRemove ==
    /\ pc = "ContainerRemove"
    /\ \/ /\ removeCalls' = removeCalls \cup {<<containers[ci], "err">>}
          /\ pc' = "done"
          /\ postErr' = "err"
          /\ UNCHANGED <<engine, ci, databases, di, attempts>>
       \/ /\ removeCalls' = removeCalls \cup {<<containers[ci], "ok">>}
          /\ engine' = engine \ {containers[ci]}
          /\ Sweep(containers, ci + 1)
    /\ UNCHANGED <<knownContainers, runErr, outcome, containers, listFailed,
                   stopCalls>>
    /\ UNCHANGED runVars
    /\ UNCHANGED <<ctxVars, processVars, unitVars>>

\* ------------------------------------------------------------- specification

Next ==
    \/ LoadConfig
    \/ NetworkList
    \/ FindAndStart
    \/ StartOrCreateDatabase
    \/ FindOrCreateMount
    \/ DynamoDBService
    \/ MailhogService
    \/ StartOrCreateSite
    \/ Ping
    \/ Apply
    \/ EditHosts
    \/ IsUpdated
    \/ HostsCommand
    \/ ContainerList
    \/ Databases
    \/ Perform
    \/ ContainerStop
    \/ ContainerRemove

Spec == Init /\ [][Next]_vars

\* ------------------------------------------------------------- cancellation

\* The operator aborts the command while updateProxy waits for the proxy:
\* cmd.Context() (line 143), which updateProxy passes to nitrod.Ping, is
\* cancelled.
Cancel ==
    /\ ~cancelled
    /\ pc = "Ping"
    /\ cancelled' = TRUE
    /\ UNCHANGED <<pc, cfg, item, knownContainers, engine, calls, runErr,
                   outcome, env, probes>>
    /\ UNCHANGED sweepVars
    /\ UNCHANGED <<processVars, unitVars>>

NextCancel == Next \/ Cancel

\* The command runs on: a call that can be made is made.
SpecCancel == Init /\ [][NextCancel]_vars /\ WF_vars(Next)

\* ------------------------------------------------- updateProxy's payload

MaxPayloadSites == 2

PayloadHostnames == {"a.test", "c.test"}
PayloadAliasLists ==
    {<<>>, <<"b.test">>, <<"b.test", "d.test">>, <<"d.test", "b.test">>}

\* cfg.Sites as updateProxy may be handed it: config.Load does not reject
\* two sites with one hostname.
PayloadConfigs ==
    {[NoConfig EXCEPT !.Sites = s] :
        s \in SeqsUpTo([Hostname : PayloadHostnames, Aliases : PayloadAliasLists],
                       MaxPayloadSites)}

InitPayload ==
    /\ \E c \in PayloadConfigs : Started("updateProxy", c)
    /\ engine = {}
    /\ env = NoEnv
    /\ request = NoRequest
    /\ hostsIn = NoHosts
    /\ hostsOut = NoOutput
    /\ hostsCurrent = NoCheck
    /\ execs = <<>>
    /\ flags = NoFlags
    /\ args = <<>>

\* lines 382-391: the loop that fills the sites map of the ApplyRequest
BuildRequest ==
    /\ pc = "updateProxy"
    /\ request' = ProxySites(cfg)
    /\ pc' = UpdateProxyEntry(cfg)
    /\ UNCHANGED <<cfg, item, knownContainers, engine, calls, runErr, outcome, env>>
    /\ UNCHANGED sweepVars
    /\ UNCHANGED <<ctxVars, processVars, hostsVars, execs, cmdVars>>

NextPayload == BuildRequest

SpecPayload == InitPayload /\ [][NextPayload]_vars

\* ------------------------------------------------- runs in one process

MaxRuns == 2

\* The command is executed again in the same process: RunE starts afresh
\* with its own locals, and PostRunE's too; the package variable
\* knownContainers (line 37) is never reassigned or cleared, and the engine
\* keeps its containers.
StartRun ==
    /\ pc = "done"
    /\ runs < MaxRuns
    /\ runs' = runs + 1
    /\ declared' = {}
    /\ pc' = "Load"
    /\ cfg' = NoConfig
    /\ item' = 1
    /\ calls' = <<>>
    /\ runErr' = "none"
    /\ outcome' = "running"
    /\ env' = NoEnv
    /\ postErr' = "none"
    /\ containers' = <<>>
    /\ ci' = 1
    /\ databases' = <<>>
    /\ di' = 1
    /\ attempts' = <<>>
    /\ listFailed' = {}
    /\ stopCalls' = {}
    /\ removeCalls' = {}
    /\ execs' = <<>>
    /\ UNCHANGED cmdVars
    /\ UNCHANGED <<knownContainers, engine>>
    /\ UNCHANGED <<ctxVars, request, hostsVars>>

NextRuns == Next \/ StartRun

SpecRuns == Init /\ [][NextRuns]_vars

\* ------------------------------------------------------- hostedit.Update

MaxFileLines == 2

\* A hosts file is the sequence of its lines, a line the sequence of its
\* tokens; the empty sequence is a blank line.
StartMarker == <<"# <nitro>">>
EndMarker == <<"# </nitro>">>

ContentLineCommaJoined(addr, hosts) == <<addr, "\t">> \o Join(hosts, ",")

\* The line of the managed block: the address, a tab, the hostnames with
\* single spaces between them.
ContentLine(addr, hosts) == <<addr, "\t">> \o Join(hosts, " ")

Section(line) == <<StartMarker, line, EndMarker>>

\* Index of the first line of file, from index from on, that is line;
\* Len(file) + 1 when there is none.
RECURSIVE IndexFrom(_, _, _)
IndexFrom(file, line, from) ==
    IF from > Len(file) THEN Len(file) + 1
    ELSE IF file[from] = line THEN from
    ELSE IndexFrom(file, line, from + 1)

SectionStart(file) == IndexFrom(file, StartMarker, 1)
SectionEnd(file) == IndexFrom(file, EndMarker, SectionStart(file) + 1)
HasSection(file) == SectionEnd(file) <= Len(file)

\* No managed section: the section is appended at the end of the file,
\* after a blank line.
AppendSection(file, line) == file \o <<<<>>>> \o Section(line)

ReplaceSectionKeepsOld(file, s, e, line) ==
    SubSeq(file, 1, s) \o <<line>> \o SubSeq(file, s + 1, Len(file))

\* A managed section from line s to line e: what is between the markers
\* is replaced by the one content line, in place.
ReplaceSection(file, s, e, line) ==
    SubSeq(file, 1, s) \o <<line>> \o SubSeq(file, e, Len(file))

\* hostedit.Update(file, addr, hosts...): the rendered content, or an error
\* when the file cannot be read.
Update(in) ==
    IF ~in.exists THEN [text |-> <<>>, err |-> TRUE]
    ELSE [text |->
            IF HasSection(in.file)
            THEN ReplaceSection(in.file, SectionStart(in.file),
                                SectionEnd(in.file),
                                ContentLine(in.addr, in.hosts))
            ELSE AppendSection(in.file, ContentLine(in.addr, in.hosts)),
          err |-> FALSE]

\* The inputs: files of unmanaged lines, with or without one managed
\* section at any position, and a path with no file.
HostsLines == {<<"127.0.0.1        localhost">>, <<"# End of section">>, <<>>}
HostLists == {<<"one">>, <<"one", "two", "three">>}
OldContents ==
    {ContentLine("127.0.0.1", <<"old">>), ContentLine("127.0.0.1", <<"one">>),
     ContentLine("127.0.0.1", <<"three", "two", "one">>)}
PlainFiles == SeqsUpTo(HostsLines, MaxFileLines)
SectionFiles ==
    {SubSeq(t[1], 1, t[2]) \o Section(t[3]) \o SubSeq(t[1], t[2] + 1, Len(t[1])) :
        t \in {u \in PlainFiles \X (0..MaxFileLines) \X OldContents :
                    u[2] <= Len(u[1])}}
HostsInputs ==
    [exists : {TRUE}, file : PlainFiles \cup SectionFiles,
     addr : {"127.0.0.1"}, hosts : HostLists]
        \cup [exists : {FALSE}, file : {<<>>}, addr : {"127.0.0.1"},
              hosts : HostLists]

InitHosts ==
    /\ Started("hostedit.IsUpdated", NoConfig)
    /\ engine = {}
    /\ env = NoEnv
    /\ request = NoRequest
    /\ hostsIn \in HostsInputs
    /\ hostsOut = NoOutput
    /\ hostsCurrent = NoCheck
    /\ execs = <<>>
    /\ flags = NoFlags
    /\ args = <<>>

\* the content line holds the wanted tokens, in any order
IsUpdatedSameHosts(in) ==
    IF ~in.exists THEN [updated |-> FALSE, err |-> TRUE]
    ELSE [updated |->
            /\ HasSection(in.file)
            /\ SectionEnd(in.file) = SectionStart(in.file) + 2
            /\ LET line == in.file[SectionStart(in.file) + 1]
                   want == ContentLine(in.addr, in.hosts)
               IN /\ Len(line) = Len(want)
                  /\ {line[k] : k \in 1..Len(line)} = {want[k] : k \in 1..Len(want)},
          err |-> FALSE]

\* hostedit.IsUpdated(file, addr, hosts...): whether the managed section's
\* content line is, literally, the line Update would write; an error when
\* the file cannot be read.
HosteditIsUpdated(in) ==
    IF ~in.exists THEN [updated |-> FALSE, err |-> TRUE]
    ELSE [updated |->
            /\ HasSection(in.file)
            /\ SectionEnd(in.file) = SectionStart(in.file) + 2
            /\ in.file[SectionStart(in.file) + 1] = ContentLine(in.addr, in.hosts),
          err |-> FALSE]

CheckHosts ==
    /\ pc = "hostedit.IsUpdated"
    /\ hostsCurrent' = HosteditIsUpdated(hostsIn)
    /\ pc' = "hostedit.Update"
    /\ UNCHANGED <<cfg, item, knownContainers, engine, calls, runErr, outcome, env>>
    /\ UNCHANGED sweepVars
    /\ UNCHANGED <<ctxVars, processVars, request, hostsIn, hostsOut, execs, cmdVars>>

UpdateHosts ==
    /\ pc = "hostedit.Update"
    /\ hostsOut' = Update(hostsIn)
    /\ pc' = "updated"
    /\ UNCHANGED <<cfg, item, knownContainers, engine, calls, runErr, outcome, env>>
    /\ UNCHANGED sweepVars
    /\ UNCHANGED <<ctxVars, processVars, request, hostsIn, hostsCurrent, execs, cmdVars>>

\* The rendered content is the file's new content, and IsUpdated and Update
\* are called on it with the same address and hostnames.
Remerge ==
    /\ pc = "updated"
    /\ ~hostsOut.err
    /\ hostsIn' = [hostsIn EXCEPT !.file = hostsOut.text]
    /\ hostsCurrent' = HosteditIsUpdated(hostsIn')
    /\ hostsOut' = Update(hostsIn')
    /\ pc' = "remerged"
    /\ UNCHANGED <<cfg, item, knownContainers, engine, calls, runErr, outcome, env>>
    /\ UNCHANGED sweepVars
    /\ UNCHANGED <<ctxVars, processVars, request, execs, cmdVars>>

NextHosts == CheckHosts \/ UpdateHosts \/ Remerge

SpecHosts == InitHosts /\ [][NextHosts]_vars

\* ------------------------------------------- RunE's provisioning phases

MaxPhaseItems == 2

\* Configurations with several items in each list.
PhaseConfigs ==
    [Databases : {[k \in 1..n |-> k] : n \in 0..MaxPhaseItems},
     Mounts : {[k \in 1..n |-> k] : n \in 0..MaxPhaseItems},
     DynamoDB : BOOLEAN,
     Mailhog : BOOLEAN,
     Sites : {[k \in 1..n |-> [Hostname |-> "a.test", Aliases |-> <<>>]] :
                n \in 0..MaxPhaseItems}]

\* RunE after config.Load has returned a configuration (line 152).
InitPhases ==
    /\ \E c \in PhaseConfigs : Started("NetworkList", c)
    /\ engine \in {{}, {ProxyID}}
    /\ env = NoEnv
    /\ request = NoRequest
    /\ hostsIn = NoHosts
    /\ hostsOut = NoOutput
    /\ hostsCurrent = NoCheck
    /\ execs = <<>>
    /\ flags = NoFlags
    /\ args = <<>>

\* lines 166-307: from the network check to the end of updateProxy
NextPhases ==
    \/ NetworkList
    \/ FindAndStart
    \/ StartOrCreateDatabase
    \/ FindOrCreateMount
    \/ DynamoDBService
    \/ MailhogService
    \/ StartOrCreateSite
    \/ Ping
    \/ Apply

SpecPhases == InitPhases /\ [][NextPhases]_vars

\* --------------------------------------------------- RunE's hosts step

\* RunE after updateProxy has returned nil (line 309), with any declared
\* sites.
InitHostsStep ==
    /\ \E c \in PayloadConfigs : Started("EditHosts", c)
    /\ engine = {ProxyID}
    /\ env = NoEnv
    /\ request = NoRequest
    /\ hostsIn = NoHosts
    /\ hostsOut = NoOutput
    /\ hostsCurrent = NoCheck
    /\ execs = <<>>
    /\ flags = NoFlags
    /\ args = <<>>

\* lines 311-372
NextHostsStep == EditHosts \/ IsUpdated \/ HostsCommand

SpecHostsStep == InitHostsStep /\ [][NextHostsStep]_vars

\* ------------------------------------------------------------- run command

MaxArgs == 1

Image == "composer"

\* A flag's text and the positional arguments are sequences of tokens; the
\* token " " is white space. An argument of the docker command line made
\* of several parts ("--publish=" + flagPublish) is the parts in sequence.
CommandTexts ==
    {<<>>, <<" ">>, <<"install">>,
     <<"install", " ", "--ignore-platform-reqs">>}

RECURSIVE ArgLists(_)
ArgLists(n) ==
    IF n = 0 THEN {<<>>}
    ELSE ArgLists(n - 1)
            \cup {Append(a, w) : a \in ArgLists(n - 1), w \in {"bash", "update"}}

\* The flags as cobra parses them: any value for each flag, and the image,
\* which is a required flag.
RunFlags ==
    [entrypoint : {"", "sh"}, image : {Image}, publish : {"", "3000"},
     workingDir : {"", "/app"}, command : CommandTexts,
     interactive : BOOLEAN, pull : BOOLEAN, persist : BOOLEAN]

InitRunCmd ==
    /\ Started("run.ImageList", NoConfig)
    /\ engine = {}
    /\ env = NoEnv
    /\ request = NoRequest
    /\ hostsIn = NoHosts
    /\ hostsOut = NoOutput
    /\ hostsCurrent = NoCheck
    /\ execs = <<>>
    /\ flags \in RunFlags
    /\ args \in ArgLists(MaxArgs)

\* A return statement of the run command's RunE, which has no hook after it.
RunReturn(err, site) ==
    /\ runErr' = err
    /\ outcome' = site
    /\ pc' = "done"

\* strings.Fields: the words between runs of white space.
Fields(text) == SelectSeq(text, LAMBDA t : t # " ")

\* "--rm" is appended when flagPersist is set.
RemoveOption(persist) == IF persist THEN <<"--rm">> ELSE <<>>

\* c.Args when c.Run is called, "docker" standing for the path LookPath found
\* and current for the directory os.Getwd returned.
DockerRunLine(f, a, current) ==
    <<"docker", "run">>
        \o RemoveOption(f.persist)
        \o (IF f.interactive THEN <<"-it">> ELSE <<>>)
        \o (IF f.entrypoint # "" THEN <<"--entrypoint=", f.entrypoint>> ELSE <<>>)
        \o (IF f.publish # "" THEN <<"--publish=", f.publish>> ELSE <<>>)
        \o (IF f.workingDir # "" THEN <<"-v", current, ":", f.workingDir>>
            ELSE <<>>)
        \o <<f.image>>
        \o (IF f.command # <<>> THEN Fields(f.command) ELSE a)

RunCmdFrame ==
    /\ UNCHANGED <<cfg, item, knownContainers, engine, calls, env>>
    /\ UNCHANGED sweepVars
    /\ UNCHANGED <<ctxVars, processVars, request, hostsVars, cmdVars>>

\* docker.ImageList and the decision to pull.
ImageList ==
    /\ pc = "run.ImageList"
    /\ \/ RunReturn("err", "ImageList")
       \/ \E found \in BOOLEAN :
            /\ pc' = IF ~found \/ flags.pull THEN "run.ImagePull"
                     ELSE "run.LookPath"
            /\ UNCHANGED <<runErr, outcome>>
    /\ UNCHANGED execs
    /\ RunCmdFrame

\* docker.ImagePull and the read of its response.
ImagePull ==
    /\ pc = "run.ImagePull"
    /\ \/ RunReturn("err", "ImagePull")
       \/ RunReturn("err", "ReadFrom")
       \/ /\ pc' = "run.LookPath"
          /\ UNCHANGED <<runErr, outcome>>
    /\ UNCHANGED execs
    /\ RunCmdFrame

\* exec.LookPath("docker")
LookPath ==
    /\ pc = "run.LookPath"
    /\ \/ RunReturn("err", "LookPath")
       \/ /\ pc' = "run.Command"
          /\ UNCHANGED <<runErr, outcome>>
    /\ UNCHANGED execs
    /\ RunCmdFrame

\* The docker command line is put together and run; RunE returns what
\* c.Run returns.
Command ==
    /\ pc = "run.Command"
    /\ \/ /\ flags.workingDir # ""
          /\ RunReturn("err", "os.Getwd")
          /\ UNCHANGED execs
       \/ /\ execs' = Append(execs, DockerRunLine(flags, args, "/home/dev"))
          /\ \/ RunReturn("nil", "container ran")
             \/ RunReturn("err", "c.Run")
    /\ RunCmdFrame

NextRunCmd == ImageList \/ ImagePull \/ LookPath \/ Command

SpecRunCmd == InitRunCmd /\ [][NextRunCmd]_vars

\* ------------------------------------------------------------------- claims

Touched(id) ==
    \/ \E res \in {"ok", "err"} : <<id, res>> \in stopCalls \cup removeCalls
    \/ id \in listFailed

TornDown(id) == <<id, "ok">> \in stopCalls /\ <<id, "ok">> \in removeCalls

Listed == {containers[k] : k \in 1..Len(containers)}

Orphans == {id \in Listed : id \notin knownContainers /\ ~Labels(id).Proxy}

SweepReturnedNil == pc = "done" /\ postErr = "nil"

\* RunE passed the network and proxy checks and went through every step.
RunCompleted ==
    outcome \in {"skip hosts", "no hostnames", "hosts current", "hosts written",
                 "hosts command failed"}

\* C1: when the sweep of a completed run has returned without an error,
\* every listed managed container that is neither declared nor the proxy has been stopped and
\* removed (one whose database listing failed is left alone, as 4.2 asks),
\* and no declared container has been stopped or removed.
C1_OrphanClassification ==
    (RunCompleted /\ SweepReturnedNil) =>
        /\ \A id \in Orphans \ listFailed : TornDown(id)
        /\ \A id \in Listed \cap knownContainers : ~Touched(id)

\* C2: the sweep never issues a backup, stop or remove call for a container
\* that carries the proxy label.
C2_ProxyNeverTornDown ==
    \A id \in ContainerIDs :
        Labels(id).Proxy =>
            /\ ~Touched(id)
            /\ ~(/\ pc \in {"Databases", "Perform", "ContainerStop", "ContainerRemove"}
                 /\ containers[ci] = id)

C2_Witness ==
    /\ RunCompleted
    /\ SweepReturnedNil
    /\ ProxyID \in Listed
    /\ ProxyID \notin knownContainers
    /\ \E id \in Listed : TornDown(id)

\* C3: after RunE has ended because the network is absent, no container is
\* backed up, stopped or removed.
C3_NetworkAbsentAborts ==
    outcome = "no network" =>
        /\ runErr = "nil"
        /\ stopCalls = {}
        /\ removeCalls = {}
        /\ attempts = <<>>

ProvisionOps == {Phases[p] : p \in 1..Len(Phases)}

SweepUntouched ==
    /\ postErr = "none"
    /\ containers = <<>>
    /\ stopCalls = {}
    /\ removeCalls = {}
    /\ listFailed = {}
    /\ attempts = <<>>

\* C4: a failed start-or-create call of a database, mount, service or site
\* is the last call of the run: RunE returns the error, the command is over,
\* and neither the proxy, the hosts file nor the sweep is reached.
C4_ProvisioningFailFast ==
    \A k \in 1..Len(calls) :
        (calls[k].op \in ProvisionOps /\ calls[k].res = "err") =>
            /\ k = Len(calls)
            /\ pc = "done"
            /\ runErr = "err"
            /\ SweepUntouched

C4_Witness ==
    /\ Len(calls) > 3
    /\ calls[Len(calls)] = Call("Site", "err")
    /\ calls[Len(calls) - 1].op \in ProvisionOps
    /\ pc = "done"
    /\ \E id \in engine : id \notin knownContainers /\ ~Labels(id).Proxy

AttemptsOf(db) == {k \in 1..Len(attempts) : attempts[k].db = db}

AllDatabasesAttempted ==
    \A d \in 1..Len(databases) : Cardinality(AttemptsOf(databases[d])) = 1

\* C5: when the backup loop of an orphaned database container is over and
\* the container is about to be stopped, every listed database has had
\* exactly one backup attempt, whatever the earlier attempts returned.
C5_EveryDatabaseAttempted ==
    (/\ RunCompleted
     /\ pc = "ContainerStop"
     /\ Labels(containers[ci]).DatabaseEngine) => AllDatabasesAttempted

\* C6: a database container that ContainerStop or ContainerRemove has been
\* called for has had a backup attempt for every database of its listing.
C6_TeardownAfterBackups ==
    (/\ RunCompleted
     /\ ci <= Len(containers)
     /\ Labels(containers[ci]).DatabaseEngine
     /\ Touched(containers[ci])) => AllDatabasesAttempted

\* C7: when, in a completed run, the database listing of an orphan failed, that container is
\* neither stopped nor removed, the sweep returns nil, and every other
\* orphan of the listing has been stopped and removed when the sweep ends.
C7_ListFailureContinues ==
    (RunCompleted /\ pc = "done" /\ listFailed # {}) =>
        /\ postErr = "nil"
        /\ \A id \in listFailed :
            \A res \in {"ok", "err"} : <<id, res>> \notin stopCalls \cup removeCalls
        /\ \A id \in Orphans \ listFailed : TornDown(id)

Failed == {c \in stopCalls \cup removeCalls : c[2] = "err"}

\* C8: ContainerRemove is called only for a container whose ContainerStop
\* succeeded, and a failed stop or remove ends the sweep there with that
\* error: no container after the failing one is backed up, stopped or
\* removed.
C8_StopRemoveFatal ==
    /\ \A c \in removeCalls :
        <<c[1], "ok">> \in stopCalls /\ <<c[1], "err">> \notin stopCalls
    /\ pc = "ContainerRemove" => <<containers[ci], "ok">> \in stopCalls
    /\ \A c \in Failed :
        /\ pc = "done"
        /\ postErr = "err"
        /\ c[1] = containers[ci]
        /\ \A j \in (ci + 1)..Len(containers) : ~Touched(containers[j])

C8_Witness ==
    /\ RunCompleted
    /\ pc = "done"
    /\ ci <= Len(containers)
    /\ <<containers[ci], "err">> \in stopCalls
    /\ \E j \in (ci + 1)..Len(containers) : containers[j] \in Orphans
    /\ \E j \in 1..(ci - 1) : TornDown(containers[j])

ProxyCalls == {k \in 1..Len(calls) : calls[k].op \in {"Ping", "Apply"}}

\* C9: with an empty declared site list updateProxy returns nil without a
\* Ping or an Apply call.
C9_NoSitesNoProxyCall ==
    Len(cfg.Sites) = 0 =>
        /\ ProxyCalls = {}
        /\ pc \notin {"Ping", "Apply"}
        /\ outcome # "updateProxy"

C9_Witness ==
    /\ pc = "EditHosts"
    /\ Len(cfg.Sites) = 0
    /\ Len(cfg.Databases) > 0
    /\ calls[Len(calls)] = Call("Database", "ok")

\* C10: Apply is issued only right after a successful Ping, a failed Ping
\* is followed by another Ping, a successful Ping by the Apply, and a sync
\* has one Apply with no Ping after it.
C10_ReadinessHandshake ==
    /\ \A k \in 1..Len(calls) :
        /\ calls[k].op = "Apply" =>
            /\ k > 1
            /\ calls[k - 1] = Call("Ping", "ok")
            /\ \A j \in (k + 1)..Len(calls) : calls[j].op \notin {"Ping", "Apply"}
        /\ calls[k] = Call("Ping", "err") =>
            IF k = Len(calls) THEN pc = "Ping" ELSE calls[k + 1].op = "Ping"
        /\ calls[k] = Call("Ping", "ok") =>
            IF k = Len(calls) THEN pc = "Apply" ELSE calls[k + 1].op = "Apply"
    /\ pc = "Apply" => calls[Len(calls)] = Call("Ping", "ok")
    /\ Cardinality({k \in 1..Len(calls) : calls[k].op = "Apply"}) <= 1

C10_Witness ==
    /\ Len(calls) > 3
    /\ calls[Len(calls)] = Call("Apply", "ok")
    /\ calls[Len(calls) - 1] = Call("Ping", "ok")
    /\ calls[Len(calls) - 2] = Call("Ping", "err")
    /\ pc = "EditHosts"

\* C11: once the context is cancelled while updateProxy is probing, the
\* probe loop ends: updateProxy eventually leaves the Ping loop.
C11_CancelEndsProbing == (cancelled /\ pc = "Ping") ~> (pc # "Ping")

\* strings.Join(a, ",") as the claim words it: the aliases in declared
\* order with one comma between neighbours.
RECURSIVE CommaJoined(_)
CommaJoined(a) ==
    IF Len(a) = 0 THEN <<>>
    ELSE IF Len(a) = 1 THEN <<a[1]>>
    ELSE <<a[1], ",">> \o CommaJoined(Tail(a))

PayloadBuilt == pc \in {"Ping", "EditHosts"} /\ runErr = "none" /\ calls = <<>>

SiteHostnames == {cfg.Sites[k].Hostname : k \in 1..Len(cfg.Sites)}

EntryOf(k) == request[cfg.Sites[k].Hostname]

IsLastOfHostname(k) ==
    \A j \in (k + 1)..Len(cfg.Sites) : cfg.Sites[j].Hostname # cfg.Sites[k].Hostname

\* C12 as stated: the payload has one entry per distinct site hostname,
\* keyed by the hostname, and for every declared site the entry under its
\* hostname carries that hostname, that site's aliases joined with commas
\* in declared order, and port 8080.
C12_PayloadShape ==
    PayloadBuilt =>
        /\ DOMAIN request = SiteHostnames
        /\ \A k \in 1..Len(cfg.Sites) :
            /\ EntryOf(k).Hostname = cfg.Sites[k].Hostname
            /\ EntryOf(k).Aliases = CommaJoined(cfg.Sites[k].Aliases)
            /\ EntryOf(k).Port = 8080

\* C12 amended: the payload has one entry per distinct site hostname, keyed
\* by the hostname, carrying that hostname, port 8080, and the comma-joined
\* aliases of the last declared site with that hostname.
C12_PayloadShapeLastSite ==
    PayloadBuilt =>
        /\ DOMAIN request = SiteHostnames
        /\ \A h \in DOMAIN request :
            /\ request[h].Hostname = h
            /\ request[h].Port = 8080
        /\ \A k \in 1..Len(cfg.Sites) :
            IsLastOfHostname(k) =>
                EntryOf(k).Aliases = CommaJoined(cfg.Sites[k].Aliases)

C12_Witness ==
    /\ PayloadBuilt
    /\ Len(cfg.Sites) = 2
    /\ cfg.Sites[1] = [Hostname |-> "a.test", Aliases |-> <<"b.test">>]
    /\ cfg.Sites[2] = [Hostname |-> "a.test", Aliases |-> <<"d.test", "b.test">>]
    /\ DOMAIN request = {"a.test"}
    /\ request["a.test"].Aliases = <<"d.test", ",", "b.test">>

HostsOps == {"IsUpdated", "os.Executable", "exec.Run", "sudo.Run"}

HostsCalls == {k \in 1..Len(calls) : calls[k].op \in HostsOps}

\* C13: an Apply that fails in transport or answers with the failure flag
\* is the last call of the run: RunE returns an error from updateProxy, the
\* hosts-file step is not entered and the sweep never starts.
C13_SyncFailureFatal ==
    \A k \in 1..Len(calls) :
        (calls[k].op = "Apply" /\ calls[k].res \in {"err", "resp.Error"}) =>
            /\ k = Len(calls)
            /\ pc = "done"
            /\ runErr = "err"
            /\ outcome = "updateProxy"
            /\ env = NoEnv
            /\ HostsCalls = {}
            /\ SweepUntouched

C13_Witness ==
    /\ pc = "done"
    /\ Len(calls) > 0
    /\ calls[Len(calls)] = Call("Apply", "resp.Error")
    /\ runErr = "err"
    /\ \E id \in engine : IsOrphan(knownContainers, id)

HostsFailures == {"IsUpdated", "os.Executable", "sudo.Run"}

FailureSites ==
    {"NetworkList", "FindAndStart", "updateProxy"} \cup ProvisionOps
        \cup HostsFailures \cup {"hosts command failed"}

\* C15: when RunE has returned after one of its steps failed, it has
\* returned a non-nil error.
C15_EveryErrorReturned == outcome \in FailureSites => runErr = "err"

\* C16: the known-container set a sweep reads holds only identifiers
\* recorded by its own run, so when the sweep of a completed run, the first
\* or a later one of the process, has returned nil with no failed database
\* listing, every listed container that this run did not declare and that
\* is not the proxy has been stopped and removed.
C16_KnownSetPerRun ==
    (RunCompleted /\ SweepReturnedNil /\ listFailed = {}) =>
        \A id \in Listed : (id \notin declared /\ ~Labels(id).Proxy) => TornDown(id)

AbsenceReported ==
    \E k \in 1..Len(calls) :
        calls[k].op = "FindAndStart" /\ calls[k].res \in ProxyAbsentErrors

\* C17: when FindAndStart has reported that there is no proxy container,
\* RunE returns nil without a provisioning, proxy or hosts-file call; any
\* other FindAndStart error is returned.
C17_ProxyAbsentAborts ==
    /\ AbsenceReported => runErr # "err"
    /\ outcome = "no proxy" =>
        (runErr = "nil" /\ declared = {} /\ env = NoEnv)
    /\ (Len(calls) > 0 /\ calls[Len(calls)] = Call("FindAndStart", "err")) =>
        (runErr = "err" /\ pc = "done")

Suppressed == env.NITRO_EDIT_HOSTS = "false" \/ env.skipHosts

\* C18: when NITRO_EDIT_HOSTS is "false" or the skip-hosts flag is set,
\* RunE makes no hosts-file call and returns nil at the opt-out, leaving the
\* known-container set as provisioning built it; the sweep then runs as
\* after any nil return, and has returned when the command is done.
C18_HostsOptOut ==
    /\ Suppressed =>
        /\ pc \notin {"EditHosts", "IsUpdated", "HostsCommand"}
        /\ HostsCalls = {}
        /\ outcome = "skip hosts"
        /\ runErr = "nil"
        /\ knownContainers = declared
        /\ pc = "done" => postErr # "none"
    /\ outcome = "skip hosts" => Suppressed

C18_Witness ==
    /\ env.NITRO_EDIT_HOSTS = "false"
    /\ ~env.skipHosts
    /\ outcome = "skip hosts"
    /\ declared # {}
    /\ pc = "done"
    /\ \E id \in Listed : TornDown(id)

\* The elements of a with sep between neighbours, as the claims word it.
RECURSIVE Joined(_, _)
Joined(a, sep) ==
    IF Len(a) = 0 THEN <<>>
    ELSE IF Len(a) = 1 THEN <<a[1]>>
    ELSE <<a[1], sep>> \o Joined(Tail(a), sep)

Updated == pc = "updated" /\ hostsIn.exists

Markers(text, m) == {k \in 1..Len(text) : text[k] = m}

InputHasNoMarker ==
    Markers(hostsIn.file, StartMarker) \cup Markers(hostsIn.file, EndMarker) = {}

WantedLine == <<hostsIn.addr, "\t">> \o Joined(hostsIn.hosts, " ")

\* C19: for a file without a managed block Update returns no error and a
\* text that starts with the lines of the file, unchanged and in order, and
\* ends with one block: the start marker, the one line `address, tab,
\* hostnames with single spaces between them`, the end marker; only blank
\* lines separate the two, and the text has no other marker line.
C19_NoSectionAppends ==
    (Updated /\ InputHasNoMarker) =>
        LET file == hostsIn.file
            out == hostsOut.text
            n == Len(out)
        IN /\ ~hostsOut.err
           /\ n >= Len(file) + 3
           /\ SubSeq(out, 1, Len(file)) = file
           /\ \A k \in (Len(file) + 1)..(n - 3) : out[k] = <<>>
           /\ out[n - 2] = StartMarker
           /\ out[n - 1] = WantedLine
           /\ out[n] = EndMarker
           /\ Markers(out, StartMarker) = {n - 2}
           /\ Markers(out, EndMarker) = {n}

C19_Witness ==
    /\ Updated
    /\ hostsIn.file = <<<<"127.0.0.1        localhost">>, <<"# End of section">>>>
    /\ hostsIn.hosts = <<"one", "two", "three">>
    /\ hostsOut.text[Len(hostsOut.text) - 1]
         = <<"127.0.0.1", "\t", "one", " ", "two", " ", "three">>
    /\ Len(hostsOut.text) = 6

InputHasOneSection ==
    /\ Cardinality(Markers(hostsIn.file, StartMarker)) = 1
    /\ Cardinality(Markers(hostsIn.file, EndMarker)) = 1
    /\ \E s \in Markers(hostsIn.file, StartMarker) :
        s + 2 \in Markers(hostsIn.file, EndMarker)

\* C20: for a file with one managed block, wherever it is, Update returns
\* no error and a text of the same number of lines in which the line
\* between the markers is `address, tab, space-joined hostnames` and every
\* other line, markers included, is the line of the file at that position;
\* so the block stays where it was and is the only one.
C20_SectionReplacedInPlace ==
    (Updated /\ InputHasOneSection) =>
        LET file == hostsIn.file
            out == hostsOut.text
            s == CHOOSE k \in Markers(file, StartMarker) : TRUE
        IN /\ ~hostsOut.err
           /\ Len(out) = Len(file)
           /\ out[s + 1] = WantedLine
           /\ \A k \in 1..Len(file) : k # s + 1 => out[k] = file[k]
           /\ Markers(out, StartMarker) = {s}
           /\ Markers(out, EndMarker) = {s + 2}

C20_Witness ==
    /\ Updated
    /\ Len(hostsIn.file) = 5
    /\ hostsIn.file[1] = <<"127.0.0.1        localhost">>
    /\ hostsIn.file[2] = StartMarker
    /\ hostsIn.file[3] = <<"127.0.0.1", "\t", "old">>
    /\ hostsIn.file[5] = <<"# End of section">>
    /\ hostsIn.hosts = <<"one", "two", "three">>
    /\ hostsOut.text[3] = <<"127.0.0.1", "\t", "one", " ", "two", " ", "three">>
    /\ hostsOut.text[5] = <<"# End of section">>

\* The file has a managed block whose one content line is, token for
\* token, the line for the given address and hostnames.
InputIsCurrent ==
    \E s \in Markers(hostsIn.file, StartMarker) :
        /\ s + 2 \in Markers(hostsIn.file, EndMarker)
        /\ hostsIn.file[s + 1] = WantedLine

\* C21: Update applied to its own output with the same address and
\* hostnames returns that output again, and IsUpdated on that output
\* reports true; on any readable file IsUpdated reports true exactly when
\* the managed block is there with literally the wanted content line, so
\* it reports false without a block or with the hostnames in another order.
C21_MergeIdempotent ==
    /\ pc = "remerged" =>
        /\ ~hostsOut.err
        /\ hostsOut.text = hostsIn.file
        /\ hostsCurrent = [updated |-> TRUE, err |-> FALSE]
    /\ (pc \in {"hostedit.Update", "updated"} /\ hostsIn.exists) =>
        /\ ~hostsCurrent.err
        /\ hostsCurrent.updated <=> InputIsCurrent

C21_Witness ==
    /\ pc = "remerged"
    /\ hostsIn.hosts = <<"one", "two", "three">>
    /\ Len(hostsIn.file) = 5
    /\ hostsIn.file[1] = StartMarker
    /\ hostsIn.file[2] = <<"127.0.0.1", "\t", "one", " ", "two", " ", "three">>
    /\ hostsIn.file[4] = <<"# End of section">>
    /\ hostsOut.text = hostsIn.file
    /\ hostsCurrent.updated

\* Position of a call in the order the claim gives: databases, mounts,
\* dynamodb, mailhog, sites, proxy sync; the checks come before them, the
\* hosts-file calls after.
Rank(op) ==
    CASE op = "Database" -> 1
      [] op = "Mount" -> 2
      [] op = "DynamoDB" -> 3
      [] op = "Mailhog" -> 4
      [] op = "Site" -> 5
      [] op \in {"Ping", "Apply"} -> 6
      [] op \in HostsOps -> 7
      [] OTHER -> 0

CallsOf(op) == {k \in 1..Len(calls) : calls[k].op = op}

Wanted(op) ==
    CASE op = "Database" -> Len(cfg.Databases)
      [] op = "Mount" -> Len(cfg.Mounts)
      [] op = "DynamoDB" -> IF cfg.DynamoDB THEN 1 ELSE 0
      [] op = "Mailhog" -> IF cfg.Mailhog THEN 1 ELSE 0
      [] op = "Site" -> Len(cfg.Sites)

ResourceOps == {"Database", "Mount", "DynamoDB", "Mailhog", "Site"}

\* C22: the calls of a run are in phase order (no call of a later phase
\* precedes one of an earlier phase), a phase has at most one call per
\* declared item, the loop that is about to call is at the item after the
\* ones its phase has called for (items are taken in configuration order),
\* and when the proxy sync starts every phase has called for all its items.
C22_PhasesInOrder ==
    /\ \A j, k \in 1..Len(calls) : j < k => Rank(calls[j].op) <= Rank(calls[k].op)
    /\ \A op \in ResourceOps :
        /\ runErr = "none" => Cardinality(CallsOf(op)) <= Wanted(op)
        /\ pc = op =>
            /\ item = Cardinality(CallsOf(op)) + 1
            /\ item <= Wanted(op)
        /\ pc \in {"Ping", "Apply"} => Cardinality(CallsOf(op)) = Wanted(op)

C22_Witness ==
    /\ pc = "Apply"
    /\ Len(calls) = 10
    /\ calls[3] = Call("Database", "ok")
    /\ calls[4] = Call("Database", "ok")
    /\ calls[5] = Call("Mount", "ok")
    /\ calls[6] = Call("DynamoDB", "ok")
    /\ calls[7] = Call("Mailhog", "ok")
    /\ calls[8] = Call("Site", "ok")
    /\ calls[9] = Call("Site", "ok")
    /\ calls[10] = Call("Ping", "ok")

\* C23, its first half: when the sweep of a run that passed every step has
\* returned nil, without a failed database listing, every managed container
\* the engine still has is the proxy or was recorded as declared in that
\* run.
C23_Converged ==
    (RunCompleted /\ SweepReturnedNil /\ listFailed = {}) =>
        \A id \in engine : Labels(id).Proxy \/ id \in declared

\* Every site's hostname followed by its aliases, sites in declared order.
RECURSIVE FlatNames(_)
FlatNames(sites) ==
    IF Len(sites) = 0 THEN <<>>
    ELSE FlatNames(SubSeq(sites, 1, Len(sites) - 1))
            \o <<sites[Len(sites)].Hostname>> \o sites[Len(sites)].Aliases

\* hostedit.IsUpdated has reported that the hosts file is not up to date.
CheckedStale == \E k \in 1..Len(calls) : calls[k] = Call("IsUpdated", "false")

RunEReturns == runErr = "none" /\ runErr' # "none"

WriteWanted ==
    /\ ~Suppressed'
    /\ Len(FlatNames(cfg.Sites)) > 0
    /\ CheckedStale

CarriesHostnames(line) ==
    \E prefix \in {<<"nitro">>, <<"sudo", "nitro">>} :
        line = prefix \o <<"hosts", "--hostnames=">>
                  \o Joined(FlatNames(cfg.Sites), ",")

\* C24 as stated: when RunE returns, the hosts command has been run exactly
\* if hosts editing was not suppressed, the sites gave a hostname and
\* IsUpdated reported false; it was run once, with the hostnames of the
\* sites in declared order, each followed by its aliases.
C24_HostsWriteIff ==
    [][RunEReturns =>
        /\ (execs' # <<>>) <=> WriteWanted
        /\ execs' # <<>> => (Len(execs') = 1 /\ CarriesHostnames(execs'[1]))]_vars

\* C24 amended: as stated, with one more condition for the command to be
\* run: os.Executable has found the nitro binary (when it fails RunE
\* returns that error and runs nothing); and no command is run before RunE
\* returns.
C24_HostsWriteIffLocated ==
    /\ [][RunEReturns =>
            /\ (execs' # <<>>) <=> (WriteWanted /\ outcome' # "os.Executable")
            /\ execs' # <<>> =>
                (Len(execs') = 1 /\ CarriesHostnames(execs'[1]))]_vars
    /\ [](runErr = "none" => execs = <<>>)

C24_Witness ==
    /\ outcome = "hosts written"
    /\ env.GOOS = "linux"
    /\ execs = <<<<"sudo", "nitro", "hosts", "--hostnames=",
                   "a.test", ",", "b.test", ",", "c.test">>>>

InLine(word, line) == \E k \in 1..Len(line) : line[k] = word

\* C25: the docker invocation of the run command contains "--rm" exactly
\* when persist is false; with persist true, the default, it does not.
C25_PersistKeepsContainer ==
    \A k \in 1..Len(execs) : InLine("--rm", execs[k]) <=> ~flags.persist

====
